---- MODULE Spec2Model ----
(***************************************************************************)
(* RUTA-G (src/index.tsx): the route calculator of the App component.      *)
(*                                                                         *)
(* Units.  JavaScript numbers are modelled by integers in fixed units:     *)
(*   coordinates    1e-4 degree (the catalog gives four decimals)          *)
(*   distances      metres (getDistanceFromLatLonInKm * 1000, rounded:     *)
(*                  a leg is off by at most 0.5 m, a cost by about 1 COP   *)
(*                  per leg, against the double arithmetic of the source)  *)
(*   money          COP                                                    *)
(*   CO2            tenths of a kg (1e-5 kg inside netESG)                 *)
(*   x.toFixed(f)   the integer number of 10^-f units of the string        *)
(* A number that may be NaN (the CO2 arithmetic on a missing category) is  *)
(* the record [nan |-> TRUE] or [nan |-> FALSE, v |-> integer].            *)
(***************************************************************************)
EXTENDS Integers, Sequences, FiniteSets, TLC

VARIABLES
    currentUserRole,   \* useState<EntityRole>('GESTOR')
    selectedCategory,  \* useState<WasteCategory | 'TODOS'>('TODOS')
    routeEntities,     \* useState<string[]>([])
    filteredEntities,  \* useMemo over selectedCategory
    routeMetrics,      \* useMemo over routeEntities
    call               \* a direct call of one of the pure functions

vars == <<currentUserRole, selectedCategory, routeEntities,
          filteredEntities, routeMetrics, call>>

----------------------------------------------------------------------------
(* Types *)

WasteCategory == {"ACEITES", "GRASAS", "VIDRIO", "ORGANICOS", "PLASTICO", "PAPEL_CARTON"}

EntityRole == {"GENERADOR", "GESTOR", "AUTORIDAD", "ADMIN"}

\* the value of wasteTypes[0] on an empty array, of find() on a missing id
undefined == "undefined"

----------------------------------------------------------------------------
(* JavaScript arithmetic with NaN *)

NaN == [nan |-> TRUE]

Num(n) == [nan |-> FALSE, v |-> n]

\* obj[key]: the property, or undefined (NaN once used in arithmetic)
JsGet(obj, key) == IF key \in DOMAIN obj THEN Num(obj[key]) ELSE NaN

JsMul(a, b) == IF a.nan \/ b.nan THEN NaN ELSE Num(a.v * b.v)

JsAdd(a, b) == IF a.nan \/ b.nan THEN NaN ELSE Num(a.v + b.v)

JsSub(a, b) == IF a.nan \/ b.nan THEN NaN ELSE Num(a.v - b.v)

\* n/d rounded to the nearest integer, a tie away from zero: what
\* Number.prototype.toFixed does with the digits it drops
RoundDiv(n, d) ==
    LET a == IF n < 0 THEN -n ELSE n
        q == a \div d
        m == IF 2 * (a % d) >= d THEN q + 1 ELSE q
    IN  IF n < 0 THEN -m ELSE m

\* (x / d).toFixed(..) of a number that may be NaN ("NaN" stays NaN)
JsToFixed(x, d) == IF x.nan THEN NaN ELSE Num(RoundDiv(x.v, d))

----------------------------------------------------------------------------
(* Constants and catalog *)

\* kg CO2e avoided per unit, in tenths
CO2_FACTORS ==
    [ACEITES |-> 28, GRASAS |-> 12, VIDRIO |-> 3,
     ORGANICOS |-> 5, PLASTICO |-> 15, PAPEL_CARTON |-> 10]

\* kg CO2 per km, in hundredths
TRUCK_EMISSION_PER_KM == 25

\* COP per km (totalDist * 2500)
LOGISTICS_RATE_PER_KM == 2500

\* the route length above which the discount applies (routeEntities.length > 2)
DISCOUNT_THRESHOLD == 2

\* the discount 0.10, in tenths
DISCOUNT_TENTHS == 1

\* faulty variant: a switch that lists the revenue categories and forgets one
getEconomicModel_Unmapped(category) ==
    CASE category = "GRASAS"    -> [type |-> "COSTO",   sign |-> "-"]
      [] category = "ORGANICOS" -> [type |-> "GRATIS",  sign |-> ""]
      [] category \in {"ACEITES", "VIDRIO", "PLASTICO"}
                                -> [type |-> "INGRESO", sign |-> "+"]
      [] OTHER                  -> [type |-> "undefined", sign |-> ""]

getEconomicModel(category) ==
    CASE category = "GRASAS"    -> [type |-> "COSTO",   sign |-> "-"]
      [] category = "ORGANICOS" -> [type |-> "GRATIS",  sign |-> ""]
      [] OTHER                  -> [type |-> "INGRESO", sign |-> "+"]

ENTITIES_DATA ==
    << [id |-> "1", role |-> "GENERADOR", wasteTypes |-> <<"ACEITES">>,
        availableQuantity |-> 50, pricePerUnit |-> 1500, lat |-> 104230, lng |-> -755490],
       [id |-> "2", role |-> "GENERADOR", wasteTypes |-> <<"PLASTICO", "PAPEL_CARTON">>,
        availableQuantity |-> 100, pricePerUnit |-> 800, lat |-> 104080, lng |-> -755550],
       [id |-> "3", role |-> "GESTOR", wasteTypes |-> <<"ACEITES", "GRASAS">>,
        availableQuantity |-> 0, pricePerUnit |-> 0, lat |-> 103850, lng |-> -755000],
       [id |-> "4", role |-> "GENERADOR", wasteTypes |-> <<"VIDRIO">>,
        availableQuantity |-> 45, pricePerUnit |-> 200, lat |-> 104245, lng |-> -755520],
       [id |-> "5", role |-> "AUTORIDAD", wasteTypes |-> <<>>,
        availableQuantity |-> 0, pricePerUnit |-> 0, lat |-> 104180, lng |-> -755350],
       [id |-> "7", role |-> "GENERADOR", wasteTypes |-> <<"GRASAS">>,
        availableQuantity |-> 20, pricePerUnit |-> 5000, lat |-> 104050, lng |-> -755250],
       [id |-> "8", role |-> "GENERADOR", wasteTypes |-> <<"ORGANICOS">>,
        availableQuantity |-> 500, pricePerUnit |-> 0, lat |-> 104130, lng |-> -755300] >>

\* faulty variant: a button for the sentinel among the category buttons
WASTE_LABELS_WithTodos == WasteCategory \cup {"TODOS"}

\* the filter buttons: Object.entries(WASTE_LABELS)
WASTE_LABELS == WasteCategory

----------------------------------------------------------------------------
(* Distance *)

\* The haversine formula (R = 6371) evaluated in double arithmetic at every
\* pair of catalog coordinates, in metres.  The formula is symmetric at these
\* points and gives 0 at equal points.
HaversineMetres ==
       <<104230, -755490, 104080, -755550>> :> 1792
    @@ <<104230, -755490, 103850, -755000>> :> 6824
    @@ <<104230, -755490, 104245, -755520>> :> 368
    @@ <<104230, -755490, 104180, -755350>> :> 1629
    @@ <<104230, -755490, 104050, -755250>> :> 3301
    @@ <<104230, -755490, 104130, -755300>> :> 2357
    @@ <<104080, -755550, 103850, -755000>> :> 6536
    @@ <<104080, -755550, 104245, -755520>> :> 1864
    @@ <<104080, -755550, 104180, -755350>> :> 2454
    @@ <<104080, -755550, 104050, -755250>> :> 3298
    @@ <<104080, -755550, 104130, -755300>> :> 2790
    @@ <<103850, -755000, 104245, -755520>> :> 7186
    @@ <<103850, -755000, 104180, -755350>> :> 5303
    @@ <<103850, -755000, 104050, -755250>> :> 3524
    @@ <<103850, -755000, 104130, -755300>> :> 4523
    @@ <<104245, -755520, 104180, -755350>> :> 1995
    @@ <<104245, -755520, 104050, -755250>> :> 3663
    @@ <<104245, -755520, 104130, -755300>> :> 2725
    @@ <<104180, -755350, 104050, -755250>> :> 1813
    @@ <<104180, -755350, 104130, -755300>> :> 780
    @@ <<104050, -755250, 104130, -755300>> :> 1044

getDistanceFromLatLonInKm(lat1, lon1, lat2, lon2) ==
    IF lat1 = lat2 /\ lon1 = lon2 THEN 0
    ELSE IF <<lat1, lon1, lat2, lon2>> \in DOMAIN HaversineMetres
         THEN HaversineMetres[<<lat1, lon1, lat2, lon2>>]
         ELSE HaversineMetres[<<lat2, lon2, lat1, lon1>>]

----------------------------------------------------------------------------
(* Data filtering *)

Includes(seq, x) == \E i \in DOMAIN seq : seq[i] = x

\* faulty variant: only the first-listed category is compared
filteredEntitiesOf_PrimaryOnly(category) ==
    SelectSeq(ENTITIES_DATA,
              LAMBDA entity : IF category = "TODOS" THEN TRUE
                              ELSE /\ Len(entity.wasteTypes) > 0
                                   /\ entity.wasteTypes[1] = category)

\* faulty variant: the matches regrouped, generators first
filteredEntitiesOf_GeneratorsFirst(category) ==
    LET hit(entity) == IF category = "TODOS" THEN TRUE
                       ELSE \E i \in DOMAIN entity.wasteTypes : entity.wasteTypes[i] = category
    IN  SelectSeq(ENTITIES_DATA, LAMBDA e : hit(e) /\ e.role = "GENERADOR")
        \o SelectSeq(ENTITIES_DATA, LAMBDA e : hit(e) /\ e.role # "GENERADOR")

\* ENTITIES_DATA.filter(...): a subsequence of the catalog
filteredEntitiesOf(category) ==
    SelectSeq(ENTITIES_DATA,
              LAMBDA entity : IF category = "TODOS" THEN TRUE
                              ELSE Includes(entity.wasteTypes, category))

----------------------------------------------------------------------------
(* Route calculation *)

\* ENTITIES_DATA.find(e => e.id === id): <<e>> for the first match, <<>> for
\* undefined
find(id) ==
    LET hits == SelectSeq(ENTITIES_DATA, LAMBDA e : e.id = id)
    IN  IF hits = <<>> THEN <<>> ELSE <<Head(hits)>>

\* faulty variant: the selected sites taken in catalog order, not in the caller's
selectedObjsOf_CatalogOrder(ids) ==
    SelectSeq(ENTITIES_DATA, LAMBDA e : \E i \in DOMAIN ids : ids[i] = e.id)

\* routeEntities.map(id => find(id)).filter(Boolean)
selectedObjsOf(ids) ==
    LET mapped == [i \in 1..Len(ids) |-> find(ids[i])]
        kept == SelectSeq(mapped, LAMBDA o : o # <<>>)
    IN  [i \in 1..Len(kept) |-> kept[i][1]]

\* faulty variant: the last-listed category taken for the primary one
Primary_Last(e) ==
    IF Len(e.wasteTypes) > 0 THEN e.wasteTypes[Len(e.wasteTypes)] ELSE undefined

\* e.wasteTypes[0]
Primary(e) == IF Len(e.wasteTypes) > 0 THEN e.wasteTypes[1] ELSE undefined

\* for (let i = 0; i < selectedObjs.length - 1; i++) totalDist += ...
RECURSIVE totalDistFrom(_, _)
totalDistFrom(objs, i) ==
    IF i > Len(objs) - 1 THEN 0
    ELSE getDistanceFromLatLonInKm(objs[i].lat, objs[i].lng,
                                   objs[i + 1].lat, objs[i + 1].lng)
         + totalDistFrom(objs, i + 1)

\* faulty variant: a COSTO site added to the balance instead of subtracted
goodsCostStep_CostAdds(goodsCost, e) ==
    LET econ == getEconomicModel(IF Len(e.wasteTypes) > 0 THEN e.wasteTypes[1] ELSE undefined)
    IN  IF econ.type \in {"INGRESO", "COSTO"}
        THEN goodsCost + e.availableQuantity * e.pricePerUnit
        ELSE goodsCost

\* faulty variant: the two signs exchanged
goodsCostStep_Swapped(goodsCost, e) ==
    LET econ == getEconomicModel(IF Len(e.wasteTypes) > 0 THEN e.wasteTypes[1] ELSE undefined)
    IN  IF econ.type = "INGRESO" THEN goodsCost - e.availableQuantity * e.pricePerUnit
        ELSE IF econ.type = "COSTO" THEN goodsCost + e.availableQuantity * e.pricePerUnit
        ELSE goodsCost

\* one step of the forEach on goodsCost
goodsCostStep(goodsCost, e) ==
    LET econ == getEconomicModel(Primary(e))
    IN  IF econ.type = "INGRESO" THEN goodsCost + e.availableQuantity * e.pricePerUnit
        ELSE IF econ.type = "COSTO" THEN goodsCost - e.availableQuantity * e.pricePerUnit
        ELSE goodsCost

\* one step of the forEach on avoidedCO2
avoidedCO2Step(avoidedCO2, e) ==
    JsAdd(avoidedCO2, JsMul(Num(e.availableQuantity), JsGet(CO2_FACTORS, Primary(e))))

RECURSIVE goodsCostFrom(_, _, _)
goodsCostFrom(objs, i, acc) ==
    IF i > Len(objs) THEN acc
    ELSE goodsCostFrom(objs, i + 1, goodsCostStep(acc, objs[i]))

RECURSIVE avoidedCO2From(_, _, _)
avoidedCO2From(objs, i, acc) ==
    IF i > Len(objs) THEN acc
    ELSE avoidedCO2From(objs, i + 1, avoidedCO2Step(acc, objs[i]))

\* faulty variant: only the empty selection is degenerate
IsDegenerate_OffByOne(ids) == Len(ids) < 1

\* if (routeEntities.length < 2) return {...}
IsDegenerate(ids) == Len(ids) < 2

\* faulty variant: the discount from two sites on (>= for >)
discountOf_AtTwo(ids) == IF Len(ids) >= DISCOUNT_THRESHOLD THEN DISCOUNT_TENTHS ELSE 0

\* routeEntities.length > 2 ? 0.10 : 0
discountOf(ids) == IF Len(ids) > DISCOUNT_THRESHOLD THEN DISCOUNT_TENTHS ELSE 0

ZeroMetrics ==
    [distance |-> 0, cost |-> 0, savings |-> 0, goodsBalance |-> 0,
     totalCO2 |-> Num(0), netESG |-> Num(0)]

\* (baseLogisticsCost * (1 - discount)).toFixed(0), baseLogisticsCost in
\* COP * m / km and discount in tenths
costOf(baseLogisticsCost, discount) ==
    RoundDiv(baseLogisticsCost * (10 - discount), 10 * 1000)

\* totalDist * TRUCK_EMISSION_PER_KM, in 1e-5 kg
logisticsEmissionsOf(totalDist) == totalDist * TRUCK_EMISSION_PER_KM

\* faulty variant: the gross figure, the truck's emissions not subtracted
netESGOf_Gross(avoidedCO2, logisticsEmissions) == JsToFixed(avoidedCO2, 1)

\* (avoidedCO2 - logisticsEmissions).toFixed(1)
netESGOf(avoidedCO2, logisticsEmissions) ==
    JsToFixed(JsSub(JsMul(avoidedCO2, Num(10000)), Num(logisticsEmissions)), 10000)

routeMetricsOf(ids) ==
    IF IsDegenerate(ids) THEN ZeroMetrics
    ELSE
    LET selectedObjs == selectedObjsOf(ids)
        totalDist == totalDistFrom(selectedObjs, 1)
        baseLogisticsCost == totalDist * LOGISTICS_RATE_PER_KM
        goodsCost == goodsCostFrom(selectedObjs, 1, 0)
        avoidedCO2 == avoidedCO2From(selectedObjs, 1, Num(0))
        logisticsEmissions == logisticsEmissionsOf(totalDist)
        discount == discountOf(ids)
    IN  [distance |-> RoundDiv(totalDist, 10),
         cost |-> costOf(baseLogisticsCost, discount),
         goodsBalance |-> goodsCost,
         totalCO2 |-> JsToFixed(avoidedCO2, 1),
         netESG |-> netESGOf(avoidedCO2, logisticsEmissions)]

----------------------------------------------------------------------------
(* The App: hook state, handlers, and the memos recomputed by the render *)

NoCall == [fn |-> "none"]

Init ==
    /\ currentUserRole = "GESTOR"
    /\ selectedCategory = "TODOS"
    /\ routeEntities = <<>>
    /\ filteredEntities = filteredEntitiesOf("TODOS")
    /\ routeMetrics = routeMetricsOf(<<>>)
    /\ call = NoCall

\* the role switcher: three buttons
setCurrentUserRole(role) ==
    /\ currentUserRole' = role
    /\ UNCHANGED <<selectedCategory, routeEntities, filteredEntities, routeMetrics, call>>

\* a category button, rendered unless the role is AUTORIDAD
setSelectedCategory(k) ==
    /\ currentUserRole # "AUTORIDAD"
    /\ selectedCategory' = k
    /\ filteredEntities' = filteredEntitiesOf(k)
    /\ UNCHANGED <<currentUserRole, routeEntities, routeMetrics, call>>

\* faulty variant: the identifier appended whether or not it is there
toggled_AlwaysAppend(prev, id) == Append(prev, id)

\* faulty variant: a new identifier put first
toggled_Prepend(prev, id) ==
    IF \E i \in DOMAIN prev : prev[i] = id THEN SelectSeq(prev, LAMBDA x : x # id)
    ELSE <<id>> \o prev

\* prev.filter(x => x !== id)  /  [...prev, id]
toggled(prev, id) ==
    IF Includes(prev, id) THEN SelectSeq(prev, LAMBDA x : x # id)
    ELSE Append(prev, id)

\* faulty variant: the metrics of the previous selection kept
toggleRoutePoint_Stale(i) ==
    /\ currentUserRole = "GESTOR"
    /\ i \in DOMAIN filteredEntities
    /\ filteredEntities[i].role = "GENERADOR"
    /\ routeEntities' = toggled(routeEntities, filteredEntities[i].id)
    /\ UNCHANGED <<currentUserRole, selectedCategory, filteredEntities, routeMetrics, call>>

\* faulty variant: the button offered on every card
toggleRoutePoint_AnyCard(i) ==
    /\ currentUserRole = "GESTOR"
    /\ i \in DOMAIN filteredEntities
    /\ routeEntities' = toggled(routeEntities, filteredEntities[i].id)
    /\ routeMetrics' = routeMetricsOf(routeEntities')
    /\ UNCHANGED <<currentUserRole, selectedCategory, filteredEntities, call>>

\* the add/remove button of a card: a GENERADOR card of the filtered list,
\* while the role is GESTOR
toggleRoutePoint(i) ==
    /\ currentUserRole = "GESTOR"
    /\ i \in DOMAIN filteredEntities
    /\ filteredEntities[i].role = "GENERADOR"
    /\ routeEntities' = toggled(routeEntities, filteredEntities[i].id)
    /\ routeMetrics' = routeMetricsOf(routeEntities')
    /\ UNCHANGED <<currentUserRole, selectedCategory, filteredEntities, call>>

\* "Limpiar Ruta", in the optimizer panel (GESTOR and a non-empty route)
clearRoute ==
    /\ currentUserRole = "GESTOR"
    /\ Len(routeEntities) > 0
    /\ routeEntities' = <<>>
    /\ routeMetrics' = routeMetricsOf(routeEntities')
    /\ UNCHANGED <<currentUserRole, selectedCategory, filteredEntities, call>>

Next ==
    \/ \E role \in {"GENERADOR", "GESTOR", "AUTORIDAD"} : setCurrentUserRole(role)
    \/ \E k \in WASTE_LABELS : setSelectedCategory(k)
    \/ \E i \in DOMAIN ENTITIES_DATA : toggleRoutePoint(i)
    \/ clearRoute

Spec == Init /\ [][Next]_vars

----------------------------------------------------------------------------
(* The pure functions called directly: routeMetrics on a selection that may *)
(* name identifiers the catalog does not hold and sites of any role (the    *)
(* caller keeps it free of duplicates), getEconomicModel on a category or   *)
(* on the wasteTypes[0] of an empty list.                                   *)

MaxRouteLen == 4

CatalogIds == {ENTITIES_DATA[i].id : i \in DOMAIN ENTITIES_DATA}

AbsentIds == {"6", "9"}

AllIds == CatalogIds \cup AbsentIds

InputRoutes ==
    {s \in UNION {[1..n -> AllIds] : n \in 0..MaxRouteLen} :
        \A i, j \in DOMAIN s : i # j => s[i] # s[j]}

InputCategories == WasteCategory \cup {undefined}

Calls ==
    {[fn |-> "routeMetrics", arg |-> r, done |-> FALSE, ret |-> <<>>, log |-> <<>>] :
        r \in InputRoutes}
    \cup
    {[fn |-> "getEconomicModel", arg |-> c, done |-> FALSE, ret |-> <<>>, log |-> <<>>] :
        c \in InputCategories}

FnInit ==
    /\ currentUserRole = "GESTOR"
    /\ selectedCategory = "TODOS"
    /\ routeEntities = <<>>
    /\ filteredEntities = filteredEntitiesOf("TODOS")
    /\ routeMetrics = routeMetricsOf(<<>>)
    /\ call \in Calls

\* what a call of routeMetrics writes besides its result: the body has no
\* console, alert or callback statement
routeMetricsLog(ids) == <<>>

callRouteMetrics ==
    /\ call.fn = "routeMetrics"
    /\ ~call.done
    /\ call' = [call EXCEPT !.done = TRUE,
                            !.ret = routeMetricsOf(call.arg),
                            !.log = routeMetricsLog(call.arg)]
    /\ UNCHANGED <<currentUserRole, selectedCategory, routeEntities,
                   filteredEntities, routeMetrics>>

callGetEconomicModel ==
    /\ call.fn = "getEconomicModel"
    /\ ~call.done
    /\ call' = [call EXCEPT !.done = TRUE, !.ret = getEconomicModel(call.arg)]
    /\ UNCHANGED <<currentUserRole, selectedCategory, routeEntities,
                   filteredEntities, routeMetrics>>

FnNext == callRouteMetrics \/ callGetEconomicModel

SpecFn == FnInit /\ [][FnNext]_vars

----------------------------------------------------------------------------
(* Properties.  The right-hand sides below are written from the wording of *)
(* the specification, with its numbers, not from the operators above.      *)

Regimes == {"INGRESO", "GRATIS", "COSTO"}

Returned(fn) == call.fn = fn /\ call.done

Range(seq) == {seq[i] : i \in DOMAIN seq}

AllValid(ids) == Range(ids) \subseteq CatalogIds

EntityOf(id) == CHOOSE e \in Range(ENTITIES_DATA) : e.id = id

HasPrimary(id) == EntityOf(id).wasteTypes # <<>>

AllHavePrimary(ids) == \A id \in Range(ids) : HasPrimary(id)

\* the selection with the identifiers the catalog does not hold removed
Stripped(ids) == SelectSeq(ids, LAMBDA id : id \in CatalogIds)

DistIds(a, b) ==
    getDistanceFromLatLonInKm(EntityOf(a).lat, EntityOf(a).lng,
                              EntityOf(b).lat, EntityOf(b).lng)

\* the distances of (s1,s2), (s2,s3), ..., (s(n-1),sn), in metres
LegSum(ids) ==
    LET f[k \in 0..(Len(ids) - 1)] ==
            IF k = 0 THEN 0 ELSE f[k - 1] + DistIds(ids[k], ids[k + 1])
    IN  IF Len(ids) < 2 THEN 0 ELSE f[Len(ids) - 1]

\* +quantity x price for INGRESO, -quantity x price for COSTO, 0 for GRATIS
Contribution(id) ==
    LET e == EntityOf(id)
        regime == getEconomicModel(e.wasteTypes[1]).type
    IN  CASE regime = "INGRESO" -> e.availableQuantity * e.pricePerUnit
          [] regime = "COSTO"   -> 0 - e.availableQuantity * e.pricePerUnit
          [] regime = "GRATIS"  -> 0

RECURSIVE BalanceOfSet(_)
BalanceOfSet(S) ==
    IF S = {} THEN 0
    ELSE LET id == CHOOSE x \in S : TRUE
         IN  Contribution(id) + BalanceOfSet(S \ {id})

\* quantity x emission factor of the primary category, in tenths of a kg
RECURSIVE GrossAvoidedOfSet(_)
GrossAvoidedOfSet(S) ==
    IF S = {} THEN 0
    ELSE LET id == CHOOSE x \in S : TRUE
             e == EntityOf(id)
         IN  e.availableQuantity * CO2_FACTORS[e.wasteTypes[1]]
             + GrossAvoidedOfSet(S \ {id})

PermutationsOf(ids) ==
    {[i \in 1..Len(ids) |-> ids[p[i]]] : p \in Permutations(1..Len(ids))}

\* the five metrics of two results agree (the degenerate result's extra
\* savings field aside)
SameMetrics(m1, m2) ==
    /\ m1.distance = m2.distance
    /\ m1.cost = m2.cost
    /\ m1.goodsBalance = m2.goodsBalance
    /\ m1.totalCO2 = m2.totalCO2
    /\ m1.netESG = m2.netESG

\* C1: routeMetrics on a selection of fewer than 2 identifiers (empty or a
\* single one) returns distance 0, cost 0, material balance 0, avoided CO2 0
\* and net impact 0.
C1_DegenerateIsZero ==
    (Returned("routeMetrics") /\ Len(call.arg) < 2) =>
        /\ call.ret.distance = 0
        /\ call.ret.cost = 0
        /\ call.ret.goodsBalance = 0
        /\ call.ret.totalCO2 = Num(0)
        /\ call.ret.netESG = Num(0)

\* a single generator with a non-zero quantity x price was computed
C1_Witness ==
    /\ Returned("routeMetrics")
    /\ call.arg = <<"1">>
    /\ call.ret.goodsBalance = 0

\* C2: on a selection of catalog sites the discount applies exactly when
\* there are more than 2 of them: with 3 or more the cost is
\* 0.9 x (total distance x 2500), with exactly 2 it is total distance x 2500
\* (each rounded to the whole unit, as toFixed(0) does), and with 3 or more
\* the cost is strictly below total distance x 2500.
C2_DiscountAboveTwo ==
    (Returned("routeMetrics") /\ AllValid(call.arg)) =>
        LET d == LegSum(call.arg)
        IN  /\ Len(call.arg) >= 3 => call.ret.cost = RoundDiv(9 * (d * 2500), 10 * 1000)
            /\ Len(call.arg) = 2 => call.ret.cost = RoundDiv(d * 2500, 1000)
            /\ Len(call.arg) >= 3 => call.ret.cost * 1000 < d * 2500

\* a third site added to <<"7", "4">>: discounted, and not equal to the
\* undiscounted figure
C2_Witness ==
    /\ Returned("routeMetrics")
    /\ call.arg = <<"7", "4", "1">>
    /\ call.ret.cost > 0
    /\ call.ret.cost # RoundDiv(LegSum(call.arg) * 2500, 1000)

C4_BalanceIsRegimeSum ==
    (Returned("routeMetrics") /\ AllValid(call.arg) /\ AllHavePrimary(call.arg)
        /\ Len(call.arg) >= 2) =>
        /\ call.ret.goodsBalance = BalanceOfSet(Range(call.arg))
        /\ \A p \in PermutationsOf(call.arg) :
               routeMetricsOf(p).goodsBalance = call.ret.goodsBalance

\* one site of each regime: 9000 - 100000 + 0
C4_Witness ==
    /\ Returned("routeMetrics")
    /\ call.arg = <<"4", "7", "8">>
    /\ call.ret.goodsBalance = 9000 - 100000

\* C5: the distance of 2 or more catalog sites is the sum of the distances
\* of the consecutive pairs (s1,s2), (s2,s3), ..., (s(n-1),sn) of the
\* selection in the order given (rounded to 0.01 km, as toFixed(2) does).
C5_DistanceInCallerOrder ==
    (Returned("routeMetrics") /\ AllValid(call.arg) /\ Len(call.arg) >= 2) =>
        call.ret.distance = RoundDiv(LegSum(call.arg), 10)

\* a selection some reordering of which is shorter
C5_Witness ==
    /\ Returned("routeMetrics")
    /\ AllValid(call.arg)
    /\ Len(call.arg) = 3
    /\ \E p \in PermutationsOf(call.arg) :
           RoundDiv(LegSum(p), 10) < call.ret.distance

\* C6: for 2 or more catalog sites with a primary category, net impact is
\* the gross avoided CO2 (sum of quantity x factor of the primary category)
\* minus total distance x 0.25 per km (rounded to 0.1 kg, as toFixed(1)
\* does, below zero included), and avoided CO2 is that gross sum.
C6_NetIsGrossMinusTransport ==
    (Returned("routeMetrics") /\ AllValid(call.arg) /\ AllHavePrimary(call.arg)
        /\ Len(call.arg) >= 2) =>
        LET gross == GrossAvoidedOfSet(Range(call.arg))
            d == LegSum(call.arg)
        IN  /\ call.ret.totalCO2 = Num(gross)
            /\ call.ret.netESG = Num(RoundDiv(gross * 10000 - d * 25, 10000))

\* transport emissions that show in the rounded figure
C6_Witness ==
    /\ Returned("routeMetrics")
    /\ AllValid(call.arg)
    /\ AllHavePrimary(call.arg)
    /\ Len(call.arg) >= 2
    /\ ~call.ret.netESG.nan
    /\ call.ret.netESG.v < call.ret.totalCO2.v

\* C7: getEconomicModel on each of the six categories returns one of
\* INGRESO, GRATIS, COSTO.
C7_EveryCategoryHasARegime ==
    (Returned("getEconomicModel") /\ call.arg \in WasteCategory) =>
        call.ret.type \in Regimes

\* the category no case of the switch names
C7_Witness ==
    /\ Returned("getEconomicModel")
    /\ call.arg = "PAPEL_CARTON"
    /\ call.ret.type = "INGRESO"

\* C8: getEconomicModel on a value outside the six categories (the
\* wasteTypes[0] of an empty list included) is rejected as UnknownCategory
\* and returns no regime.
C8_UnknownCategoryRejected ==
    (Returned("getEconomicModel") /\ call.arg \notin WasteCategory) =>
        /\ "error" \in DOMAIN call.ret
        /\ "type" \notin DOMAIN call.ret

\* C9: routeMetrics on a selection holding a site without a primary
\* category is rejected: it returns no avoided-CO2 and no net-impact value.
C9_UnknownCategoryNoCO2 ==
    (Returned("routeMetrics") /\ Len(call.arg) >= 2
        /\ \E id \in Range(call.arg) \cap CatalogIds : ~HasPrimary(id)) =>
        /\ "error" \in DOMAIN call.ret
        /\ "totalCO2" \notin DOMAIN call.ret
        /\ "netESG" \notin DOMAIN call.ret

IsSubsequence(s, t) == SelectSeq(t, LAMBDA x : x \in Range(s)) = s

\* C11: with a specific category selected, the filtered list holds exactly
\* the catalog sites whose category list contains that category at any
\* position: every listed site contains it, every site containing it is
\* listed.
C11_FilterIsAnyPositionMatch ==
    selectedCategory # "TODOS" =>
        /\ \A i \in DOMAIN filteredEntities :
               selectedCategory \in Range(filteredEntities[i].wasteTypes)
        /\ \A e \in Range(ENTITIES_DATA) :
               selectedCategory \in Range(e.wasteTypes) => e \in Range(filteredEntities)

\* a site listed for a category that is not its first
C11_Witness ==
    /\ selectedCategory = "PAPEL_CARTON"
    /\ \E i \in DOMAIN filteredEntities :
           /\ filteredEntities[i].id = "2"
           /\ filteredEntities[i].wasteTypes[1] # selectedCategory

\* C12: for every filter value the filtered list is a subsequence of the
\* catalog in catalog order, and for TODOS it is the whole catalog, each
\* site once, in the original order.
C12_FilterKeepsCatalogOrder ==
    /\ IsSubsequence(filteredEntities, ENTITIES_DATA)
    /\ selectedCategory = "TODOS" => filteredEntities = ENTITIES_DATA

\* a filter that keeps two sites and drops the one between them
C12_Witness ==
    /\ selectedCategory = "GRASAS"
    /\ Len(filteredEntities) = 2
    /\ filteredEntities[1].id = "3"
    /\ filteredEntities[2].id = "7"


\* the categories a site may list after its first: the two that the switch
\* of getEconomicModel names, each with a regime and a factor of its own
ExtraCategories == {"GRASAS", "ORGANICOS"}

Tails == {<<>>} \cup {<<c>> : c \in ExtraCategories}

\* the site with the categories after its first replaced by t
WithTail(e, t) ==
    IF e.wasteTypes = <<>> THEN e
    ELSE [e EXCEPT !.wasteTypes = <<e.wasteTypes[1]>> \o t]

\* the routes whose sites differ from those of objs only in the categories
\* listed after the first
TailVariants(objs) ==
    {[i \in DOMAIN objs |-> WithTail(objs[i], ts[i])] : ts \in [DOMAIN objs -> Tails]}

\* material balance, avoided CO2 and net impact of a route of site records
AccountingOf(objs) ==
    LET avoidedCO2 == avoidedCO2From(objs, 1, Num(0))
    IN  [goodsBalance |-> goodsCostFrom(objs, 1, 0),
         totalCO2 |-> JsToFixed(avoidedCO2, 1),
         netESG |-> netESGOf(avoidedCO2, logisticsEmissionsOf(totalDistFrom(objs, 1)))]

\* C13: a route of 2 or more identifiers yields the same material balance,
\* avoided CO2 and net impact as every route whose sites differ from its own
\* only in the categories listed after the first.
C13_AccountingIsPrimaryOnly ==
    (Returned("routeMetrics") /\ Len(call.arg) >= 2) =>
        \A v \in TailVariants(selectedObjsOf(call.arg)) :
            AccountingOf(v) = [goodsBalance |-> call.ret.goodsBalance,
                               totalCO2 |-> call.ret.totalCO2,
                               netESG |-> call.ret.netESG]

\* a route with a variant that another category filter matches (or no
\* longer matches) while its accounting is that of the route
C13_Witness ==
    /\ Returned("routeMetrics")
    /\ call.arg = <<"2", "7">>
    /\ \E v \in TailVariants(selectedObjsOf(call.arg)) :
           /\ "GRASAS" \in Range(v[1].wasteTypes)
           /\ "PAPEL_CARTON" \notin Range(v[1].wasteTypes)
           /\ "ORGANICOS" \in Range(v[2].wasteTypes)
           /\ AccountingOf(v).goodsBalance = call.ret.goodsBalance
           /\ call.ret.goodsBalance = 80000 - 100000


\* C14: for the route [A, B] with A = site "7" (20 L at 5000, GRASAS) and
\* B = site "4" (45 units at 200, VIDRIO), A resolves to COSTO and B to
\* INGRESO, no discount applies, the material balance is 9000 - 100000 =
\* -91000 and the gross avoided CO2 is 20 x 1.2 + 45 x 0.3 = 37.5.
C14_ExampleRoute ==
    routeEntities = <<"7", "4">> =>
        /\ EntityOf("7").availableQuantity = 20 /\ EntityOf("7").pricePerUnit = 5000
        /\ EntityOf("4").availableQuantity = 45 /\ EntityOf("4").pricePerUnit = 200
        /\ getEconomicModel(EntityOf("7").wasteTypes[1]).type = "COSTO"
        /\ getEconomicModel(EntityOf("4").wasteTypes[1]).type = "INGRESO"
        /\ routeMetrics.cost = RoundDiv(DistIds("7", "4") * 2500, 1000)
        /\ routeMetrics.goodsBalance = 0 - 91000
        /\ routeMetrics.totalCO2 = Num(375)

C14_Witness ==
    /\ routeEntities = <<"7", "4">>
    /\ routeMetrics.goodsBalance < 0

\* C15: in every state the metrics shown are those of the current selection
\* computed from scratch: zero below 2 identifiers, otherwise the distance,
\* cost, balance and CO2 of the selection as it stands.
C15_MetricsFollowSelection ==
    /\ routeMetrics = routeMetricsOf(routeEntities)
    /\ Len(routeEntities) < 2 => routeMetrics = ZeroMetrics
    /\ Len(routeEntities) >= 2 =>
           /\ routeMetrics.distance = RoundDiv(LegSum(routeEntities), 10)
           /\ routeMetrics.goodsBalance = BalanceOfSet(Range(routeEntities))
           /\ routeMetrics.totalCO2 = Num(GrossAvoidedOfSet(Range(routeEntities)))

\* a single site selected, shown with the zero result whatever was shown
\* before
C15_Witness ==
    /\ Len(routeEntities) = 1
    /\ routeMetrics = ZeroMetrics
    /\ currentUserRole = "GENERADOR"

\* C16: the route holds no identifier more than once.
C16_RouteHasNoDuplicates ==
    \A i, j \in DOMAIN routeEntities : i # j => routeEntities[i] # routeEntities[j]

\* every generator in the route
C16_Witness == Len(routeEntities) = 5

\* C17: every identifier of the route is that of a catalog site of role
\* GENERADOR, whose category list is not empty.
C17_RouteHoldsGenerators ==
    \A i \in DOMAIN routeEntities :
        \E e \in Range(ENTITIES_DATA) :
            /\ e.id = routeEntities[i]
            /\ e.role = "GENERADOR"
            /\ e.wasteTypes # <<>>
            /\ e.wasteTypes[1] \in WasteCategory

\* a route kept through a category change and a role switch
C17_Witness ==
    /\ Len(routeEntities) >= 2
    /\ currentUserRole = "AUTORIDAD"
    /\ selectedCategory = "ACEITES"


\* the identifiers whose card shows the add/remove button in this state
Togglable ==
    IF currentUserRole # "GESTOR" THEN {}
    ELSE {filteredEntities[i].id :
             i \in {k \in DOMAIN filteredEntities : filteredEntities[k].role = "GENERADOR"}}

\* seq without its k-th element
Without(seq, k) ==
    [j \in 1..(Len(seq) - 1) |-> IF j < k THEN seq[j] ELSE seq[j + 1]]

\* C18: a step that changes the route either empties it (the clear button)
\* or toggles one identifier whose button is shown: an identifier not in the
\* route becomes its last element, the elements before it unchanged, and a
\* second toggle of it would give back the route as it was; an identifier
\* in the route is removed, the others keeping their order.
C18_ToggleAppendsOrRemoves ==
    [][routeEntities' # routeEntities =>
        \/ routeEntities' = <<>>
        \/ \E id \in Togglable \ Range(routeEntities) :
               /\ Len(routeEntities') = Len(routeEntities) + 1
               /\ routeEntities'[Len(routeEntities')] = id
               /\ \A k \in DOMAIN routeEntities : routeEntities'[k] = routeEntities[k]
               /\ toggled(routeEntities', id) = routeEntities
        \/ \E id \in Togglable \cap Range(routeEntities) :
               \E k \in DOMAIN routeEntities :
                   /\ routeEntities[k] = id
                   /\ routeEntities' = Without(routeEntities, k)
                   /\ id \notin Range(routeEntities')
      ]_vars

\* a route built by appending: the identifiers in the order they were added
C18_Witness ==
    /\ routeEntities = <<"8", "1", "4">>
    /\ currentUserRole = "GESTOR"

====
